---- MODULE Spec2Model ----
(***************************************************************************)
(* Model of src/utils/misc.py of anls-star-metric: provider resolution,    *)
(* the extraction prompt, the process-wide asyncio semaphore and the       *)
(* coroutine ainvoke_die.  One action is one run of a coroutine between    *)
(* two suspension points of the single-threaded event loop.                *)
(***************************************************************************)
EXTENDS Integers, Sequences, FiniteSets

VARIABLES
    invoke_semaphore, \* the module global: None, or the asyncio.Semaphore
    created,          \* how many times asyncio.Semaphore(p) was constructed
    gate_by,          \* the model whose get_semaphore call constructed it
    gate_size,        \* the p it was constructed with (0 before)
    sft,              \* whether the optional module utils.sft was imported
    started,          \* number of ainvoke_die calls made so far
    args,             \* per call: model, method, images
    call              \* per call: suspension point and local variables

vars == <<invoke_semaphore, created, gate_by, gate_size, sft, started, args, call>>

----------------------------------------------------------------------------
(* Bounds of the model *)

\* calls of the concurrency specification
NumCalls == 6
\* calls of the rendering specification
NumPageCalls == 2
\* longest list of images
MaxPages == 2
\* calls of the provider specification
NumModelCalls == 2
\* calls of the concurrency specification made with any model
MixedCalls == 2

\* the value None of the global invoke_semaphore
NoSemaphore == [none |-> TRUE]
Calls == 1..NumCalls

----------------------------------------------------------------------------
(* Text.  A text is a sequence of characters; the words the code never     *)
(* looks into are kept as one element.                                     *)

NL == "\n"
SP == " "

StartsWith(s, prefix) ==
    /\ Len(s) >= Len(prefix)
    /\ SubSeq(s, 1, Len(prefix)) = prefix

RECURSIVE Join(_, _)
\* sep.join(parts)
Join(sep, parts) ==
    IF Len(parts) = 0 THEN <<>>
    ELSE IF Len(parts) = 1 THEN parts[1]
    ELSE parts[1] \o sep \o Join(sep, Tail(parts))

Digit(d) == CASE d = 0 -> "0" [] d = 1 -> "1" [] d = 2 -> "2" [] d = 3 -> "3"
              [] d = 4 -> "4" [] d = 5 -> "5" [] d = 6 -> "6" [] d = 7 -> "7"
              [] d = 8 -> "8" [] d = 9 -> "9"

RECURSIVE Str(_)
\* str(n) of a natural number
Str(n) == IF n < 10 THEN <<Digit(n)>> ELSE Str(n \div 10) \o <<Digit(n % 10)>>

----------------------------------------------------------------------------
(* Model identifiers *)

GPT4TURBO == <<"g","p","t","-","4","-","t","u","r","b","o">>
GPT4PREVIEW == <<"g","p","t","-","4","-","1","1","0","6","-","p","r","e","v","i","e","w">>
GPT35 == <<"g","p","t","-","3",".","5">>
GEMINIPRO == <<"g","e","m","i","n","i","-","p","r","o">>
MISTRALLARGE == <<"m","i","s","t","r","a","l","-","l","a","r","g","e">>
CLAUDE3 == <<"c","l","a","u","d","e","-","3">>
CLAUDE3OPUS == <<"c","l","a","u","d","e","-","3","-","o","p","u","s","-","2","0","2","4","0","2","2","9">>
CLAUDE2 == <<"c","l","a","u","d","e","-","2">>
LLAMA2 == <<"l","l","a","m","a","-","2">>
GP == <<"g","p">>
UPPERGPT == <<"G","P","T","-","4">>

\* the identifiers the provider specification calls with
AllModels == {GPT4TURBO, GPT35, GEMINIPRO, MISTRALLARGE, CLAUDE3, CLAUDE2,
              LLAMA2, GP, UPPERGPT}
\* the identifiers the concurrency specification calls with
GateModels == {GPT35, CLAUDE2, LLAMA2}
\* the identifiers the rendering specification calls with
PageModels == {GEMINIPRO, CLAUDE3, GP}

UnknownModel == "Unknown model"

\* mutant: the prefix gpt is tested by its first two characters
get_provider_short(model) ==
    IF StartsWith(model, <<"g","p">>) THEN "openai"
    ELSE IF StartsWith(model, <<"g","e","m","i","n","i">>) THEN "vertexai"
    ELSE IF StartsWith(model, <<"m","i","s","t","r","a","l">>) THEN "mistral"
    ELSE IF StartsWith(model, <<"c","l","a","u","d","e">>) THEN "anthropic"
    ELSE UnknownModel

\* get_provider: the provider, or UnknownModel for the raised exception
get_provider(model) ==
    IF StartsWith(model, <<"g","p","t">>) THEN "openai"
    ELSE IF StartsWith(model, <<"g","e","m","i","n","i">>) THEN "vertexai"
    ELSE IF StartsWith(model, <<"m","i","s","t","r","a","l">>) THEN "mistral"
    ELSE IF StartsWith(model, <<"c","l","a","u","d","e">>) THEN "anthropic"
    ELSE UnknownModel

Ok(v) == [ok |-> TRUE, val |-> v]
Raise(e) == [ok |-> FALSE, err |-> e]

\* create_llm: the client, or the exception of get_provider
create_llm(model) ==
    LET provider == get_provider(model)
        name == IF model = GPT4TURBO THEN GPT4PREVIEW
                ELSE IF model = CLAUDE3 THEN CLAUDE3OPUS
                ELSE model
    IN  IF provider = UnknownModel THEN Raise(UnknownModel)
        ELSE Ok([provider |-> provider, model |-> name, temperature |-> 0])

\* mutant: the leading role is "system" for every provider
sys_message_system(model) == "system"

sys_message(model) ==
    IF get_provider(model) = "vertexai" THEN "user" ELSE "system"

requires_human_message(model) == get_provider(model) = "anthropic"

FRAMING == <<"You are a document information extraction system.", NL,
             "You are given a document and a json with keys that must be extracted from the document.", NL>>
DOCUMENT == "{document}"
FORMAT_INSTRUCTIONS == "{format_instructions}"
JSON_ONLY == "Never include natural text in your answer, return a json only! The message must start with {{ and end with }}."

\* create_die_prompt: the list of (role, template) pairs
create_die_prompt(model) ==
    LET provider == get_provider(model)
        sys_prompt == FRAMING
        doc0 == <<"Here is the document:", NL, DOCUMENT, NL,
                  FORMAT_INSTRUCTIONS, NL>>
        doc_prompt == IF provider = "anthropic"
                      THEN doc0 \o <<JSON_ONLY, NL>> ELSE doc0
    IN  IF provider = UnknownModel THEN Raise(UnknownModel)
        ELSE IF ~requires_human_message(model)
        THEN Ok(<< <<sys_message(model), sys_prompt \o doc_prompt>> >>)
        ELSE Ok(<< <<sys_message(model), sys_prompt>>, <<"human", doc_prompt>> >>)

\* the seconds throttle sleeps
SleepSeconds == 10

\* mutant: every provider is throttled
throttle_all(model) ==
    LET provider == get_provider(model)
    IN  IF provider = UnknownModel THEN Raise(UnknownModel)
        ELSE Ok(SleepSeconds)

\* throttle: the seconds slept before the model is invoked
throttle(model) ==
    LET provider == get_provider(model)
    IN  IF provider = UnknownModel THEN Raise(UnknownModel)
        ELSE IF provider = "anthropic" THEN Ok(SleepSeconds) ELSE Ok(0)

AnthropicParallelism == 1
DefaultParallelism == 5

\* mutant: the two pool sizes the wrong way round
get_parallelism_swapped(model) ==
    LET provider == get_provider(model)
    IN  IF provider = UnknownModel THEN Raise(UnknownModel)
        ELSE IF provider = "anthropic" THEN Ok(DefaultParallelism)
        ELSE Ok(AnthropicParallelism)

get_parallelism(model) ==
    LET provider == get_provider(model)
    IN  IF provider = UnknownModel THEN Raise(UnknownModel)
        ELSE IF provider = "anthropic" THEN Ok(AnthropicParallelism)
        ELSE Ok(DefaultParallelism)

----------------------------------------------------------------------------
(* asyncio.Semaphore: a counter and the FIFO queue of the futures of the   *)
(* suspended acquire() calls; done marks a future whose result was set.    *)

Semaphore(value) == [value |-> value, waiters |-> <<>>]

\* Semaphore.locked(); no future is ever cancelled in this model
locked(sem) == sem.value = 0 \/ Len(sem.waiters) > 0

NotDone(sem) == {i \in 1..Len(sem.waiters) : ~sem.waiters[i].done}

Min(S) == CHOOSE x \in S : \A y \in S : x <= y

\* Semaphore._wake_up_next(): hand a permit to the first waiter not yet woken
wake_up_next(sem) ==
    IF NotDone(sem) = {} THEN sem
    ELSE LET i == Min(NotDone(sem))
         IN  [value |-> sem.value - 1,
              waiters |-> [sem.waiters EXCEPT ![i].done = TRUE]]

\* mutant: release() wakes nobody
release_silent(sem) == [sem EXCEPT !.value = @ + 1]

\* Semaphore.release()
release(sem) == wake_up_next([sem EXCEPT !.value = @ + 1])

\* the tail of Semaphore.acquire() run by a woken waiter c
resume(sem, c) ==
    LET rest == SelectSeq(sem.waiters, LAMBDA w : w.call # c)
        s1 == [sem EXCEPT !.waiters = rest]
    IN  IF s1.value > 0 THEN wake_up_next(s1) ELSE s1

\* mutant: the test for None is missing, every call constructs a semaphore
get_semaphore_fresh(global, model) ==
    LET p == get_parallelism(model)
    IN  IF p.ok THEN Ok([sem |-> Semaphore(p.val), new |-> TRUE, p |-> p.val])
        ELSE p

\* get_semaphore, given the global: the semaphore returned and whether it is new
get_semaphore(global, model) ==
    IF global = NoSemaphore
    THEN LET p == get_parallelism(model)
         IN  IF p.ok THEN Ok([sem |-> Semaphore(p.val), new |-> TRUE, p |-> p.val])
             ELSE p
    ELSE Ok([sem |-> global, new |-> FALSE, p |-> 0])

----------------------------------------------------------------------------
(* Images, OCR and the prompting methods *)

Images == {"img1", "img2"}

\* ocr_scanner.ocr(img): the text fragments of the scan
Scan(img) == IF img = "img1" THEN <<"A", "B">> ELSE <<"C">>

Methods == {"simple", "latin", "sft", "xyz"}

UnknownMethod == "Unknown prompting method"
NoSft == "Please install the sft package"
OcrError == "ocr failed"
LlmError == "llm call failed"
ParseError == "output parser failed"
DictError == "dict failed"

RECURSIVE Interleave(_, _)
Interleave(sep, xs) ==
    IF Len(xs) <= 1 THEN xs ELSE <<xs[1], sep>> \o Interleave(sep, Tail(xs))

\* mutant: an unknown method falls back to the simple one
doc_to_prompt_lenient(scan, img, method, has_sft) ==
    IF method = "latin" THEN Ok(<<"latin">> \o scan)
    ELSE IF method = "sft"
         THEN IF ~has_sft THEN Raise(NoSft) ELSE Ok(<<"sft">> \o scan)
    ELSE Ok(Interleave(SP, scan))

\* the part of doc_to_prompt after the scan; the texts of latin.to_prompt and
\* sft.to_prompt are kept as one word before the fragments
doc_to_prompt(scan, img, method, has_sft) ==
    IF method = "simple" THEN Ok(Interleave(SP, scan))
    ELSE IF method = "latin" THEN Ok(<<"latin">> \o scan)
    ELSE IF method = "sft"
         THEN IF ~has_sft THEN Raise(NoSft) ELSE Ok(<<"sft">> \o scan)
    ELSE Raise(UnknownMethod)

\* images: a list of images, or one image that is no list
ImageLists(n) == UNION {[1..k -> Images] : k \in 0..n}
AsList(imgs) == [list |-> TRUE, imgs |-> imgs]
Single(img) == [list |-> FALSE, imgs |-> <<img>>]

\* mutant: pages are numbered from 0
PageBlock_zero(n, page) == <<"## Page ">> \o Str(n - 1) \o <<NL>> \o page \o <<NL>>

\* the page block built in the loop of ainvoke_die
PageBlock(n, page) == <<"## Page ">> \o Str(n) \o <<NL>> \o page \o <<NL>>

\* doc_prompt once every page is rendered
DocPrompt(images, pgs) ==
    IF images.list THEN Join(<<NL>>, pgs) ELSE pgs[1]

----------------------------------------------------------------------------
(* ainvoke_die *)

Ev(e) == [ev |-> e, n |-> 0]
EvN(e, k) == [ev |-> e, n |-> k]

\* a call that has neither returned nor raised
NoResult == [none |-> TRUE]

\* a local variable not yet assigned
Unset == [none |-> TRUE]

Idle == [pc |-> "idle", chain |-> Unset, idx |-> 0, pages |-> <<>>,
         doc_prompt |-> <<>>, sent |-> Unset, log |-> <<>>, result |-> NoResult]

Gated == {"ocr", "sleep", "llm"}

\* mutant: the permit is not released when an exception leaves the block
RaiseInBlock_leak(sem, st, e) ==
    [sem |-> sem,
     st |-> [st EXCEPT !.pc = "failed", !.result = Raise(e),
                       !.log = @ \o <<Ev("raise")>>]]

\* an exception leaves the async with block: __aexit__ releases the permit
RaiseInBlock(sem, st, e) ==
    [sem |-> release(sem),
     st |-> [st EXCEPT !.pc = "failed", !.result = Raise(e),
                       !.log = @ \o <<Ev("release"), Ev("raise")>>]]

\* mutant: the inference is outside the async with block
Inference_outside(sem, st, model, doc) ==
    LET t == throttle(model)
        s1 == [st EXCEPT !.doc_prompt = doc, !.log = @ \o <<Ev("release")>>]
    IN  IF t.val > 0
        THEN [sem |-> release(sem),
              st |-> [s1 EXCEPT !.pc = "sleep",
                              !.log = @ \o <<EvN("sleep", t.val)>>]]
        ELSE [sem |-> release(sem),
              st |-> [s1 EXCEPT !.pc = "llm", !.log = @ \o <<Ev("invoke")>>,
                        !.sent = [document |-> doc,
                                  format_instructions |-> "format"]]]

\* lines 195-201 up to the suspension: throttle, then chain.ainvoke
Inference(sem, st, model, doc) ==
    LET t == throttle(model)
        s1 == [st EXCEPT !.doc_prompt = doc]
    IN  IF ~t.ok THEN RaiseInBlock(sem, s1, t.err)
        ELSE IF t.val > 0
        THEN [sem |-> sem,
              st |-> [s1 EXCEPT !.pc = "sleep",
                              !.log = @ \o <<EvN("sleep", t.val)>>]]
        ELSE [sem |-> sem,
              st |-> [s1 EXCEPT !.pc = "llm", !.log = @ \o <<Ev("invoke")>>,
                        !.sent = [document |-> doc,
                                  format_instructions |-> "format"]]]

\* lines 177-192 up to the first suspension, the permit just obtained
Block(sem, st, a) ==
    LET s0 == [st EXCEPT !.log = @ \o <<Ev("acquire")>>]
        llm == create_llm(a.model)
        die_prompt == create_die_prompt(a.model)
    IN  IF ~llm.ok THEN RaiseInBlock(sem, s0, llm.err)
        ELSE IF ~die_prompt.ok THEN RaiseInBlock(sem, s0, die_prompt.err)
        ELSE LET s1 == [s0 EXCEPT
                          !.chain = [llm |-> llm.val, prompt |-> die_prompt.val],
                          !.log = @ \o <<Ev("create_llm"), Ev("create_die_prompt")>>]
             IN  IF a.images.list /\ Len(a.images.imgs) = 0
                 THEN Inference(sem, s1, a.model, DocPrompt(a.images, <<>>))
                 ELSE [sem |-> sem,
                       st |-> [s1 EXCEPT !.pc = "ocr", !.idx = 1,
                                         !.log = @ \o <<EvN("ocr", 1)>>]]

Apply(c, out) ==
    /\ invoke_semaphore' = out.sem
    /\ call' = [call EXCEPT ![c] = out.st]

\* ainvoke_die(model, method, parser, images) is called and runs to its first
\* suspension
Invoke(c, model, method, images) ==
    /\ c = started + 1
    /\ call[c].pc = "idle"
    /\ started' = c
    /\ args' = [args EXCEPT ![c] = [model |-> model, method |-> method,
                                    images |-> images]]
    /\ UNCHANGED sft
    /\ LET got == get_semaphore(invoke_semaphore, model)
       IN  IF ~got.ok
           THEN /\ call' = [call EXCEPT ![c] =
                      [@ EXCEPT !.pc = "failed", !.result = Raise(got.err),
                                !.log = <<Ev("raise")>>]]
                /\ UNCHANGED <<invoke_semaphore, created, gate_by, gate_size>>
           ELSE /\ created' = IF got.val.new THEN created + 1 ELSE created
                /\ gate_by' = IF got.val.new THEN model ELSE gate_by
                /\ gate_size' = IF got.val.new THEN got.val.p ELSE gate_size
                /\ LET sem == got.val.sem
                   IN  IF ~locked(sem)
                       THEN Apply(c, Block([sem EXCEPT !.value = @ - 1], call[c],
                                           args'[c]))
                       ELSE Apply(c, [sem |-> [sem EXCEPT !.waiters =
                                          Append(@, [call |-> c, done |-> FALSE])],
                                      st |-> [call[c] EXCEPT !.pc = "waiting"]])

\* the future of a waiting call was given its result: acquire() returns
Resume(c) ==
    /\ call[c].pc = "waiting"
    /\ \E i \in 1..Len(invoke_semaphore.waiters) :
          /\ invoke_semaphore.waiters[i].call = c
          /\ invoke_semaphore.waiters[i].done
    /\ Apply(c, Block(resume(invoke_semaphore, c), call[c], args[c]))
    /\ UNCHANGED <<created, gate_by, gate_size, sft, started, args>>

\* the OCR scan of page idx ends; the page is formatted and the loop goes on
OcrDone(c, ok) ==
    /\ call[c].pc = "ocr"
    /\ LET a == args[c]
           st == call[c]
           n == st.idx
           img == a.images.imgs[n]
           page == doc_to_prompt(Scan(img), img, a.method, sft)
       IN  IF ~ok THEN Apply(c, RaiseInBlock(invoke_semaphore, st, OcrError))
           ELSE IF ~page.ok THEN Apply(c, RaiseInBlock(invoke_semaphore, st, page.err))
           ELSE LET text == IF a.images.list THEN PageBlock(n, page.val)
                            ELSE page.val
                    s1 == [st EXCEPT !.pages = Append(@, text),
                                     !.log = @ \o <<EvN("page", n)>>]
                IN  IF n < Len(a.images.imgs)
                    THEN Apply(c, [sem |-> invoke_semaphore,
                                   st |-> [s1 EXCEPT !.idx = n + 1,
                                             !.log = @ \o <<EvN("ocr", n + 1)>>]])
                    ELSE Apply(c, Inference(invoke_semaphore, s1, a.model,
                                            DocPrompt(a.images, s1.pages)))
    /\ UNCHANGED <<created, gate_by, gate_size, sft, started, args>>

\* asyncio.sleep(10) ends; chain.ainvoke starts
SleepDone(c) ==
    /\ call[c].pc = "sleep"
    /\ Apply(c, [sem |-> invoke_semaphore,
                 st |-> [call[c] EXCEPT !.pc = "llm", !.log = @ \o <<Ev("invoke")>>,
                           !.sent = [document |-> call[c].doc_prompt,
                                     format_instructions |-> "format"]]])
    /\ UNCHANGED <<created, gate_by, gate_size, sft, started, args>>

Outcomes == {"ok", LlmError, ParseError, DictError}

\* chain.ainvoke ends: the block is left, then output.dict()
LlmDone(c, outcome) ==
    /\ call[c].pc = "llm"
    /\ IF outcome \in {LlmError, ParseError}
       THEN Apply(c, RaiseInBlock(invoke_semaphore, call[c], outcome))
       ELSE Apply(c, [sem |-> release(invoke_semaphore),
                      st |-> IF outcome = DictError
                             THEN [call[c] EXCEPT !.pc = "failed",
                                     !.result = Raise(DictError),
                                     !.log = @ \o <<Ev("output"), Ev("release"),
                                                    Ev("raise")>>]
                             ELSE [call[c] EXCEPT !.pc = "done",
                                     !.result = Ok("mapping"),
                                     !.log = @ \o <<Ev("output"), Ev("release"),
                                                    Ev("dict")>>]])
    /\ UNCHANGED <<created, gate_by, gate_size, sft, started, args>>

NoArgs == [model |-> <<>>, method |-> "", images |-> AsList(<<>>)]

Init ==
    /\ invoke_semaphore = NoSemaphore
    /\ created = 0
    /\ gate_by = <<>>
    /\ gate_size = 0
    /\ sft \in BOOLEAN
    /\ started = 0
    /\ args = [c \in Calls |-> NoArgs]
    /\ call = [c \in Calls |-> Idle]

\* utils.sft is not installed; the method "simple" never reads sft
InitNoSft == Init /\ ~sft

Step(c, outcomes) ==
    \/ Resume(c)
    \/ \E ok \in BOOLEAN : OcrDone(c, ok)
    \/ SleepDone(c)
    \/ \E outcome \in outcomes : LlmDone(c, outcome)

\* the models call c is made with: any of GateModels for the first
\* MixedCalls calls, an openai model for the others
ModelsOf(c) == IF c <= MixedCalls THEN GateModels ELSE {GPT35}

\* many concurrent calls of one image each; a scan may fail, the model answers
Next ==
    \/ \E c \in Calls : \E model \in ModelsOf(c) :
          Invoke(c, model, "simple", Single("img1"))
    \/ \E c \in Calls : Step(c, {"ok"})

Spec == InitNoSft /\ [][Next]_vars

\* the shapes of the argument images
Shapes == {AsList(l) : l \in ImageLists(MaxPages)} \cup {Single(i) : i \in Images}

\* plain calls first, then one call with any method and shape of images
NextPages ==
    \/ \E c \in 1..(NumPageCalls - 1), model \in GateModels :
          Invoke(c, model, "simple", Single("img1"))
    \/ \E model \in PageModels, method \in Methods, images \in Shapes :
          Invoke(NumPageCalls, model, method, images)
    \/ \E c \in Calls : Step(c, Outcomes)

SpecPages == Init /\ [][NextPages]_vars

\* a few calls, every model identifier, one image each
NextModels ==
    \/ \E c \in 1..NumModelCalls, model \in AllModels :
          Invoke(c, model, "simple", Single("img1"))
    \/ \E c \in Calls : Step(c, {"ok", LlmError})

SpecModels == InitNoSft /\ [][NextModels]_vars

----------------------------------------------------------------------------
(* Properties *)

Started == 1..started
Terminated(c) == call[c].pc \in {"done", "failed"}
HasGate == invoke_semaphore # NoSemaphore

\* the waiting calls that were handed a permit and have not run yet
Woken ==
    IF HasGate
    THEN {invoke_semaphore.waiters[i].call :
             i \in {j \in 1..Len(invoke_semaphore.waiters) :
                       invoke_semaphore.waiters[j].done}}
    ELSE {}

\* the calls that acquired a permit and have not released it
Holders == {c \in Calls : call[c].pc \in Gated} \cup Woken

\* the calls suspended in acquire() without a permit
Waiting == {c \in Calls : call[c].pc = "waiting"} \ Woken

Count(lg, e) == Cardinality({i \in 1..Len(lg) : lg[i].ev = e})
CountN(lg, e, k) == Cardinality({i \in 1..Len(lg) : lg[i].ev = e /\ lg[i].n = k})

IsClaude(model) == Len(model) >= 6 /\ SubSeq(model, 1, 6) = <<"c","l","a","u","d","e">>

\* C1: the calls holding a permit are never more than the pool size, which is
\* 1 when the gate was created by a call with a claude model and 5 otherwise.
C1_GateBound ==
    HasGate =>
        /\ Cardinality(Holders) <= (IF IsClaude(gate_by) THEN 1 ELSE 5)
        /\ gate_size = (IF IsClaude(gate_by) THEN 1 ELSE 5)
        /\ invoke_semaphore.value >= 0

\* a pool of 5 is full and a sixth call waits
C1_Witness ==
    /\ HasGate
    /\ ~IsClaude(gate_by)
    /\ Cardinality(Holders) = 5
    /\ Waiting # {}

\* the started calls whose model get_provider recognises
Recognised == {c \in Started : get_provider(args[c].model) # UnknownModel}

\* C2: the gate is constructed at most once; it exists exactly when a call with
\* a recognised model was made, and its pool (free permits plus permits held)
\* is the parallelism of the first such call's model, whatever came later.
C2_GateOnce ==
    /\ created <= 1
    /\ HasGate <=> Recognised # {}
    /\ HasGate =>
          LET first == Min(Recognised)
          IN  /\ created = 1
              /\ gate_by = args[first].model
              /\ invoke_semaphore.value + Cardinality(Holders)
                   = (IF IsClaude(args[first].model) THEN 1 ELSE 5)

\* a claude call and another call hold permits of a pool created by a gpt call
C2_Witness ==
    /\ HasGate
    /\ ~IsClaude(gate_by)
    /\ \E c \in Holders : IsClaude(args[c].model)
    /\ Cardinality(Holders) >= 2

\* C3: every call that acquired a permit released exactly one when it left the
\* block, normally or by an exception: acquisitions and releases balance in
\* every call's log, and the free permits plus the permits held are the pool.
C3_PermitBalance ==
    /\ \A c \in Calls :
          /\ Count(call[c].log, "acquire") <= 1
          /\ Terminated(c) =>
                Count(call[c].log, "release") = Count(call[c].log, "acquire")
          /\ call[c].pc \in Gated =>
                /\ Count(call[c].log, "acquire") = 1
                /\ Count(call[c].log, "release") = 0
    /\ HasGate =>
          /\ invoke_semaphore.value + Cardinality(Holders) = gate_size
          /\ Holders = {} => invoke_semaphore.value = gate_size

\* one call failed in the block when its client was created, another when
\* the model was invoked, and every permit is free again
C3_Witness ==
    /\ HasGate
    /\ Holders = {}
    /\ invoke_semaphore.value = gate_size
    /\ \E c \in Started : /\ call[c].pc = "failed"
                          /\ call[c].result.err = UnknownModel
                          /\ Count(call[c].log, "acquire") = 1
                          /\ Count(call[c].log, "release") = 1
    /\ \E c \in Started : /\ call[c].pc = "failed"
                          /\ call[c].result.err = LlmError
                          /\ Count(call[c].log, "release") = 1

Has(lg, e) == Count(lg, e) > 0

\* positions of event e in lg
At(lg, e) == {i \in 1..Len(lg) : lg[i].ev = e}

\* C4 as stated: every finished call with a claude model slept exactly once,
\* and every finished call with another model never slept.
C4_AsStated ==
    \A c \in Started :
        Terminated(c) =>
            Count(call[c].log, "sleep") = (IF IsClaude(args[c].model) THEN 1 ELSE 0)

\* C4: a call sleeps at most once and only for 10 seconds; a call with a claude
\* model that reaches the invocation of the model has slept exactly once,
\* before it and after all its pages, whatever the number of pages; a call with
\* any other model never sleeps.
C4_DelayOnce ==
    \A c \in Started :
        LET lg == call[c].log
        IN  /\ Count(lg, "sleep") <= 1
            /\ \A i \in At(lg, "sleep") : lg[i].n = 10
            /\ ~IsClaude(args[c].model) => Count(lg, "sleep") = 0
            /\ call[c].pc = "sleep" => Count(lg, "sleep") = 1
            /\ (IsClaude(args[c].model) /\ Has(lg, "invoke")) =>
                  /\ Count(lg, "sleep") = 1
                  /\ \A i \in At(lg, "sleep") :
                        /\ \A j \in At(lg, "invoke") : i < j
                        /\ \A j \in At(lg, "page") : j < i

\* a claude call with two pages invoked the model after one sleep, and a call
\* of another model invoked it without any
C4_Witness ==
    /\ \E c \in Started : /\ IsClaude(args[c].model)
                          /\ args[c].images.list
                          /\ Len(args[c].images.imgs) = 2
                          /\ call[c].pc = "llm"
                          /\ Count(call[c].log, "sleep") = 1
    /\ \E c \in Started : /\ ~IsClaude(args[c].model)
                          /\ Has(call[c].log, "invoke")

\* the call built its client and prompt
Built(c) == Has(call[c].log, "create_llm")

\* the provider each identifier of AllModels must resolve to
ProviderTable(model) ==
    CASE model \in {GPT4TURBO, GPT35} -> "openai"
      [] model = GEMINIPRO -> "vertexai"
      [] model = MISTRALLARGE -> "mistral"
      [] model \in {CLAUDE3, CLAUDE2} -> "anthropic"
      [] model \in {LLAMA2, GP, UPPERGPT} -> UnknownModel

\* C5: get_provider maps gpt... to openai, gemini... to vertexai, mistral... to
\* mistral, claude... to anthropic and fails for every other identifier: a
\* call's client carries the provider of the table, a call with an
\* unrecognised identifier fails with the unknown-model error and has no
\* client, and such a call does not create the gate.
C5_Provider ==
    /\ \A c \in Started :
          LET m == args[c].model
          IN  /\ get_provider(m) = ProviderTable(m)
              /\ Built(c) => call[c].chain.llm.provider = ProviderTable(m)
              /\ ProviderTable(m) = UnknownModel =>
                    /\ ~Built(c)
                    /\ call[c].pc \in {"waiting", "failed"}
                    /\ call[c].pc = "failed" => call[c].result = Raise(UnknownModel)
              /\ (ProviderTable(m) # UnknownModel /\ call[c].pc # "waiting") =>
                    Built(c)
    /\ (\A c \in Started : ProviderTable(args[c].model) = UnknownModel) => ~HasGate

\* a call with the identifier gp failed as unknown before any gate existed, and
\* a call with a gemini identifier has a vertexai client
C5_Witness ==
    /\ \E c \in Started : /\ args[c].model = GP
                          /\ call[c].pc = "failed"
                          /\ call[c].log = <<Ev("raise")>>
    /\ \E c \in Started : /\ args[c].model = GEMINIPRO
                          /\ Built(c)
                          /\ call[c].chain.llm.provider = "vertexai"

\* the text of one page, as the prompting method renders it
PageText(img, method) == doc_to_prompt(Scan(img), img, method, sft).val

PageNumber(n) == CASE n = 1 -> "1" [] n = 2 -> "2" [] n = 3 -> "3" [] n = 4 -> "4"

RECURSIVE Blocks(_, _, _)
\* the blocks of pages n.. of imgs, a blank line between two blocks
Blocks(imgs, method, n) ==
    IF n > Len(imgs) THEN <<>>
    ELSE <<"## Page ", PageNumber(n), NL>> \o PageText(imgs[n], method) \o <<NL>>
         \o (IF n < Len(imgs) THEN <<NL>> ELSE <<>>)
         \o Blocks(imgs, method, n + 1)

\* the call handed a document to chain.ainvoke
Sent(c) == Has(call[c].log, "invoke")

\* C6: the document handed to the model is, for a list of images, the blocks
\* "## Page n" newline page text newline for n = 1.. in the order of the list,
\* one empty line between two blocks, and for an image that is no list the
\* text of the page alone.
C6_Document ==
    \A c \in Started :
        Sent(c) =>
            LET a == args[c]
            IN  call[c].sent.document =
                   (IF a.images.list THEN Blocks(a.images.imgs, a.method, 1)
                    ELSE PageText(a.images.imgs[1], a.method))

\* the pages img2, img1 were sent in this order, text "C" then "A B"
C6_Witness ==
    \E c \in Started :
        /\ Sent(c)
        /\ args[c].images = AsList(<<"img2", "img1">>)
        /\ args[c].method = "simple"
        /\ call[c].sent.document =
              <<"## Page ", "1", NL, "C", NL, NL, "## Page ", "2", NL, "A", SP, "B", NL>>

NumPages(c) == Len(args[c].images.imgs)

\* C7: a failing stage ends the call with its exception and without a result,
\* nothing is tried twice and no stage runs after the failing one.
C7_FailFast ==
    \A c \in Started :
        LET lg == call[c].log
            a == args[c]
        IN  /\ Count(lg, "raise") <= 1
            /\ Has(lg, "raise") <=> call[c].pc = "failed"
            /\ Has(lg, "raise") => lg[Len(lg)].ev = "raise"
            /\ call[c].pc = "failed" <=> (call[c].result # NoResult /\ ~call[c].result.ok)
            /\ call[c].pc = "done" <=> (call[c].result # NoResult /\ call[c].result.ok)
            /\ \A k \in 1..(MaxPages + 1) :
                  CountN(lg, "ocr", k) <= 1 /\ CountN(lg, "page", k) <= 1
            /\ Count(lg, "invoke") <= 1
            /\ Count(lg, "create_llm") <= 1
            /\ call[c].pc = "failed" =>
                  LET e == call[c].result.err
                  IN  /\ e = UnknownModel =>
                            ~Has(lg, "ocr") /\ ~Has(lg, "invoke") /\ ~Built(c)
                      /\ e \in {OcrError, UnknownMethod, NoSft} =>
                            /\ ~Has(lg, "invoke") /\ ~Has(lg, "sleep")
                            /\ Count(lg, "ocr") = Count(lg, "page") + 1
                      /\ e \in {LlmError, ParseError} =>
                            ~Has(lg, "output") /\ ~Has(lg, "dict")
                      /\ e = DictError => ~Has(lg, "dict")
            /\ (a.method \notin {"simple", "latin", "sft"} /\ NumPages(c) > 0) =>
                  ~Has(lg, "page") /\ ~Has(lg, "invoke") /\ call[c].pc # "done"
            /\ (a.method = "sft" /\ ~sft /\ NumPages(c) > 0) =>
                  ~Has(lg, "page") /\ ~Has(lg, "invoke") /\ call[c].pc # "done"
            /\ get_provider(a.model) = UnknownModel =>
                  ~Has(lg, "ocr") /\ call[c].pc # "done"

\* the second page of a call failed in its OCR scan: one page was rendered,
\* the model was never invoked
C7_Witness ==
    \E c \in Started :
        /\ call[c].pc = "failed"
        /\ call[c].result = Raise(OcrError)
        /\ NumPages(c) = 2
        /\ Count(call[c].log, "page") = 1
        /\ Count(call[c].log, "ocr") = 2
        /\ ~Has(call[c].log, "invoke")

\* positions of the element x in the text t
Places(t, x) == {i \in 1..Len(t) : t[i] = x}

IsPrefix(p, t) == Len(p) <= Len(t) /\ SubSeq(t, 1, Len(p)) = p

\* C8: the prompt of a recognised model starts with the task framing, holds
\* the document and the format-instructions placeholder once each after it, is
\* two entries (the second "human") for anthropic and one entry otherwise, has
\* a leading role "user" for vertexai and "system" otherwise, so no "system"
\* entry for vertexai, and ends with the JSON-only instruction for anthropic
\* alone.
C8_Prompt ==
    \A c \in Started :
        Built(c) =>
            LET p == call[c].chain.prompt
                provider == ProviderTable(args[c].model)
                text == IF Len(p) = 2 THEN p[1][2] \o p[2][2] ELSE p[1][2]
            IN  /\ Len(p) \in {1, 2}
                /\ IsPrefix(FRAMING, p[1][2])
                /\ Cardinality(Places(text, DOCUMENT)) = 1
                /\ Cardinality(Places(text, FORMAT_INSTRUCTIONS)) = 1
                /\ \A i \in Places(text, DOCUMENT) \cup Places(text, FORMAT_INSTRUCTIONS) :
                      i > Len(FRAMING)
                /\ \A i \in Places(text, DOCUMENT) :
                      \A j \in Places(text, FORMAT_INSTRUCTIONS) : i < j
                /\ Len(p) = 2 <=> provider = "anthropic"
                /\ Len(p) = 2 =>
                      /\ p[2][1] = "human"
                      /\ p[1][2] = FRAMING
                      /\ Cardinality(Places(p[2][2], DOCUMENT)) = 1
                      /\ Cardinality(Places(p[2][2], FORMAT_INSTRUCTIONS)) = 1
                /\ p[1][1] = (IF provider = "vertexai" THEN "user" ELSE "system")
                /\ provider = "vertexai" => \A i \in 1..Len(p) : p[i][1] # "system"
                /\ Cardinality(Places(text, JSON_ONLY))
                      = (IF provider = "anthropic" THEN 1 ELSE 0)

\* prompts were built for gemini (one "user" entry), claude (two entries) and
\* gpt (one "system" entry)
C8_Witness ==
    /\ \E c \in Started : /\ args[c].model = GEMINIPRO /\ Built(c)
                          /\ Len(call[c].chain.prompt) = 1
                          /\ call[c].chain.prompt[1][1] = "user"
    /\ \E c \in Started : /\ args[c].model \in {CLAUDE3, CLAUDE2} /\ Built(c)
                          /\ Len(call[c].chain.prompt) = 2

RECURSIVE Renders(_, _)
\* the events of rendering pages k..n
Renders(k, n) ==
    IF k > n THEN <<>> ELSE <<EvN("ocr", k), EvN("page", k)>> \o Renders(k + 1, n)

\* the events of a call that returns, in their order
FullLog(a) ==
    <<Ev("acquire"), Ev("create_llm"), Ev("create_die_prompt")>>
    \o Renders(1, Len(a.images.imgs))
    \o (IF IsClaude(a.model) THEN <<EvN("sleep", 10)>> ELSE <<>>)
    \o <<Ev("invoke"), Ev("output"), Ev("release"), Ev("dict")>>

\* the log without the release and raise an exception ends it with
BeforeRaise(lg) ==
    IF Len(lg) > 0 /\ lg[Len(lg)].ev = "raise"
    THEN IF Len(lg) > 1 /\ lg[Len(lg) - 1].ev = "release"
         THEN SubSeq(lg, 1, Len(lg) - 2) ELSE SubSeq(lg, 1, Len(lg) - 1)
    ELSE lg

\* C9: the events of a call are, in this order: permit acquired, client built,
\* prompt built, for each page in input order its scan and then its text, the
\* delay, the invocation of the model, its output, permit released, conversion;
\* a call that is rendering, sleeping or invoking the model holds its permit,
\* acquired before the first scan and not released.
C9_Order ==
    \A c \in Started :
        LET lg == call[c].log
        IN  /\ IsPrefix(BeforeRaise(lg), FullLog(args[c]))
            /\ call[c].pc = "done" => lg = FullLog(args[c])
            /\ call[c].pc \in Gated =>
                  /\ Count(lg, "acquire") = 1
                  /\ ~Has(lg, "release")
                  /\ c \notin Woken
                  /\ invoke_semaphore.value + 1 <= gate_size
            /\ call[c].pc = "ocr" => lg[Len(lg)] = EvN("ocr", call[c].idx)
            /\ call[c].pc = "sleep" => lg[Len(lg)].ev = "sleep"
            /\ call[c].pc = "llm" => lg[Len(lg)].ev = "invoke"
            /\ (Has(lg, "raise") /\ Has(lg, "acquire")) =>
                  lg[Len(lg) - 1].ev = "release" /\ Count(lg, "release") = 1

\* a claude call with two pages returned after all its events
C9_Witness ==
    \E c \in Started :
        /\ call[c].pc = "done"
        /\ IsClaude(args[c].model)
        /\ NumPages(c) = 2
        /\ args[c].images.list
        /\ Len(call[c].log) = 12

\* every suspended step of every call is eventually taken
Fairness == \A c \in Calls : WF_vars(Step(c, {"ok"}))

FairSpec == InitNoSft /\ [][Next]_vars /\ Fairness

\* C10: calls wait for a permit only while some call holds one, a
\* call that waited ends only after it acquired one, and under fair scheduling
\* every call that was made, the waiting ones included, eventually returns or
\* raises: from some point on no call is waiting or inside the block.
C10_Progress ==
    /\ [](Waiting # {} => Holders # {})
    /\ [](\A c \in Started :
            (Terminated(c) /\ call[c].log # <<Ev("raise")>>)
                => Has(call[c].log, "acquire"))
    /\ <>[](\A c \in Calls : call[c].pc \in {"idle", "done", "failed"})

\* a call waits while the pool is full, after another call failed in the block
C10_Witness ==
    /\ Waiting # {}
    /\ \E c \in Started : call[c].pc = "failed" /\ Has(call[c].log, "release")

====
